---- MODULE Spec2Model ----
(***************************************************************************)
(* PurificationTEBD (tenpy/algorithms/purification_tebd.py): the bond      *)
(* update of TEBD on a purification MPS, its disentangle hooks, the Renyi  *)
(* fixed-point iteration and the imaginary-time driver.                    *)
(*                                                                         *)
(* Numbers.  Tensor entries are Gaussian integers <<re, im>>; a tensor is  *)
(* a record [a |-> entries, d |-> positive common denominator], so that    *)
(* the division by the renormalization scalar is exact.  The entries are   *)
(* kept as a flat sequence in row-major order of the legs.  Physical and   *)
(* auxiliary legs have dimension 2 (spin-1/2), bond legs dimension Chi.    *)
(***************************************************************************)
EXTENDS Integers, Sequences, FiniteSets, TLC

(***************************************************************************)
(* Bounds of the model.                                                    *)
(***************************************************************************)
\* number of update_bond calls explored by the bond-update specification
MaxCalls == 2
\* largest beta handed to run_imaginary, in tenths
MaxBeta == 4

(***************************************************************************)
(* Program constants (defaults read through get_parameter).                *)
(***************************************************************************)
\* get_parameter(self.TEBD_params, 'disent_max_iter', 20, ...)
DefaultMaxIter == 20
\* get_parameter(self.TEBD_params, 'order', 2, ...)
DefaultOrder == 2
\* get_parameter(self.TEBD_params, 'dt', 0.1, ...); times are counted in tenths
DefaultDt == 1
\* get_parameter(self.TEBD_params, 'disent_eps', 1.e-10, ...).  A threshold eps is kept
\* as the integer n with exp(eps) = 1 + 1/n.  Purities are integers below 2^31, so two
\* different ones differ in entropy by more than 1.e-10: every n >= 2^31 - 1 gives
\* the test that 1.e-10 gives, and the default is kept as the largest integer.
DefaultEps == 2147483647

(***************************************************************************)
(* Index sets and the row-major position of an entry.                      *)
(***************************************************************************)
VIdx == {0}
Chi == Cardinality(VIdx)
Bit == {0, 1}
Sites == 0 .. 2
BondIdx == 1 .. 2
QQ == 0 .. 3
\* combined (v.p.q) legs, v the bond leg
NComb == 4 * Chi
NTheta == 16 * Chi * Chi
NSite == 4 * Chi * Chi

\* theta: legs vL, vR, p0, p1, q0, q1
IxT(vL, vR, p0, p1, q0, q1) == 1 + q1 + 2 * q0 + 4 * p1 + 8 * p0 + 16 * vR + 16 * Chi * vL
\* a site tensor: legs vL, vR, p, q
IxS(vL, vR, p, q) == 1 + q + 2 * p + 4 * vR + 4 * Chi * vL
\* a gate or disentangler: legs x0, x1, x0*, x1*; also the 4 x 4 matrix (x0.x1), (x0*.x1* )
IxG(a, b, c, d) == 1 + d + 2 * c + 4 * b + 8 * a
IxM(x, y) == 1 + y + 4 * x
\* V of the factorization: legs vL (new bond) and the combined (vR.p1.q1)
IxV(v, r) == 1 + r + NComb * v

\* legs of the 0-based position k of a theta entry
TvL(k) == k \div (16 * Chi)
TvR(k) == (k \div 16) % Chi
Tp0(k) == (k \div 8) % 2
Tp1(k) == (k \div 4) % 2
Tq0(k) == (k \div 2) % 2
Tq1(k) == k % 2
\* halves of a combined (x0.x1) index
Hi(k) == k \div 2
Lo(k) == k % 2
\* legs of a combined (v.p.q) index
LegV(k) == k \div 4
LegP(k) == (k \div 2) % 2
LegQ(k) == k % 2

(***************************************************************************)
(* Complex (Gaussian integer) arithmetic.                                  *)
(***************************************************************************)
CZero == <<0, 0>>
COne == <<1, 0>>
CI == <<0, 1>>
CAdd(x, y) == <<x[1] + y[1], x[2] + y[2]>>
CMul(x, y) == <<x[1] * y[1] - x[2] * y[2], x[1] * y[2] + x[2] * y[1]>>
CConj(x) == <<x[1], -x[2]>>
CScale(n, x) == <<n * x[1], n * x[2]>>

\* sum of F(k) over k = lo .. hi, by halves
RECURSIVE CSumRange(_, _, _)
CSumRange(F(_), lo, hi) ==
  IF lo > hi THEN CZero
  ELSE IF lo = hi THEN F(lo)
  ELSE LET mid == (lo + hi) \div 2
       IN CAdd(CSumRange(F, lo, mid), CSumRange(F, mid + 1, hi))

\* sum of F(k) over k = 0 .. n-1
CSum(F(_), n) == CSumRange(F, 0, n - 1)

\* the sequence << F(lo), ..., F(hi) >>, by halves
RECURSIVE TabRange(_, _, _)
TabRange(F(_), lo, hi) ==
  IF lo > hi THEN <<>>
  ELSE IF lo = hi THEN <<F(lo)>>
  ELSE LET mid == (lo + hi) \div 2
       IN TabRange(F, lo, mid) \o TabRange(F, mid + 1, hi)

\* the sequence << F(0), ..., F(n-1) >>
Tab(F(_), n) == TabRange(F, 0, n - 1)

(***************************************************************************)
(* npc.tensordot of a four-leg operator with theta.                        *)
(***************************************************************************)
\* npc.tensordot(U_bond, theta, axes=(['p0*', 'p1*'], ['p0', 'p1']))
ApplyP(U, th) ==
  [a |-> Tab(LAMBDA l :
               CSum(LAMBDA k : CMul(U[IxG(Tp0(l), Tp1(l), Hi(k), Lo(k))],
                                    th.a[IxT(TvL(l), TvR(l), Hi(k), Lo(k), Tq0(l), Tq1(l))]),
                    4),
             NTheta),
   d |-> th.d]

\* npc.tensordot(U, theta, axes=[['q0*', 'q1*'], ['q0', 'q1']])
ApplyQ(U, th) ==
  [a |-> Tab(LAMBDA l :
               CSum(LAMBDA k : CMul(U[IxG(Tq0(l), Tq1(l), Hi(k), Lo(k))],
                                    th.a[IxT(TvL(l), TvR(l), Tp0(l), Tp1(l), Hi(k), Lo(k))]),
                    4),
             NTheta),
   d |-> th.d]

\* npc.outer(eye_like(theta, 'q0'), eye_like(theta, 'q1')): legs q0, q1, q0*, q1*
EyeQ == Tab(LAMBDA k : IF k \div 4 = k % 4 THEN COne ELSE CZero, 16)

\* the relabelling of U_bond without the conjugation
RelabelOnly(U) == U

\* U_bond.conj().ireplace_labels(['p0*','p1*','p0','p1'], ['q0','q1','q0*','q1*']):
\* conj() stars every label and conjugates every entry, so the entry at
\* p0, p1, p0*, p1* of U_bond becomes the entry at q0, q1, q0*, q1*.
ConjRelabel(U) == Tab(LAMBDA k : CConj(U[k + 1]), 16)

\* equality of two tensors as rational arrays
TEq(s, t) ==
  /\ Len(s.a) = Len(t.a)
  /\ \A l \in 1 .. Len(s.a) : CScale(t.d, s.a[l]) = CScale(s.d, t.a[l])

(***************************************************************************)
(* get_parameter(params, key, default, ...): params is a function whose    *)
(* domain holds the keys that were set.                                    *)
(***************************************************************************)
get_parameter(params, key, default) ==
  IF key \in DOMAIN params THEN params[key] ELSE default

\* Python's None, as a parameter value or an error, and in the place of a unitary
None == "None"
NoU == <<>>

(***************************************************************************)
(* npc.svd of the matrix with combined legs q0.q1 and q0*.q1*, as used by  *)
(* disentangle_renyi_iter: only the product W.VH (the unitary polar        *)
(* factor) is used.  It is exact for a monomial matrix whose non-zero      *)
(* entries lie on the real or imaginary axis; on the kernel of a singular  *)
(* matrix the factorization is not unique and the completion is chosen by  *)
(* k.  For any other matrix the factor has irrational entries: the model   *)
(* then returns one of two unitaries chosen by k and marks the result      *)
(* inexact.                                                                *)
(***************************************************************************)
NonZero(z) == z # CZero
OnAxis(z) == z[1] = 0 \/ z[2] = 0
Sgn(n) == IF n > 0 THEN 1 ELSE IF n < 0 THEN -1 ELSE 0
Phase(z) == <<Sgn(z[1]), Sgn(z[2])>>

Monomial(M) ==
  /\ \A x \in QQ : Cardinality({y \in QQ : NonZero(M[IxM(x, y)])}) <= 1
  /\ \A y \in QQ : Cardinality({x \in QQ : NonZero(M[IxM(x, y)])}) <= 1
  /\ \A e \in 1 .. 16 : OnAxis(M[e])

ZeroRows(M) == {x \in QQ : \A y \in QQ : ~NonZero(M[IxM(x, y)])}
ZeroCols(M) == {y \in QQ : \A x \in QQ : ~NonZero(M[IxM(x, y)])}
Rank(x, Z) == Cardinality({z \in Z : z < x})

\* the exchange of the two auxiliary legs
SwapQ == Tab(LAMBDA k : IF Hi(k \div 4) = Lo(k % 4) /\ Lo(k \div 4) = Hi(k % 4)
                        THEN COne ELSE CZero, 16)

PolarFactor(M, k) ==
  IF Monomial(M)
  THEN LET Zr == ZeroRows(M)
           Zc == ZeroCols(M)
           n == Cardinality(Zr)
       IN Tab(LAMBDA e :
                LET x == e \div 4
                    y == e % 4
                IN IF NonZero(M[e + 1]) THEN Phase(M[e + 1])
                   ELSE IF x \in Zr /\ y \in Zc
                           /\ (IF k = 0 THEN Rank(x, Zr) = Rank(y, Zc)
                                        ELSE Rank(x, Zr) + Rank(y, Zc) = n - 1)
                        THEN COne ELSE CZero,
              16)
  ELSE IF k = 0 THEN EyeQ ELSE SwapQ

(***************************************************************************)
(* disentangle_renyi_iter(theta, U): one step of the fixed-point loop.     *)
(* The entropy is S2 = -log(purity); the model returns the purity, an      *)
(* integer, and compares entropies through it (see Converged).             *)
(***************************************************************************)
\* entry of a theta array at combined left index l = (vL.p0.q0), right r = (vR.p1.q1)
At(A, l, r) == A[IxT(LegV(l), LegV(r), LegP(l), LegP(r), LegQ(l), LegQ(r))]

\* dS = npc.tensordot(U_theta, U_theta.conj(), axes=[['p1','q1','vR'],['p1*','q1*','vR*']]):
\* first index the left legs of U_theta, second the starred left legs
ContractRight(UT) ==
  Tab(LAMBDA e : CSum(LAMBDA r : CMul(At(UT, e \div NComb, r), CConj(At(UT, e % NComb, r))),
                      NComb),
      NComb * NComb)

\* dS = npc.tensordot(U_theta.conj(), dS, axes=[['vL*','p0*','q0*'],['vL','p0','q0']]):
\* first index the right legs of U_theta.conj(), second the starred legs of dS
ContractLeft(UT, dS) ==
  Tab(LAMBDA e : CSum(LAMBDA l : CMul(CConj(At(UT, l, e \div NComb)),
                                      dS[1 + l * NComb + (e % NComb)]), NComb),
      NComb * NComb)

\* dS = npc.tensordot(theta, dS, axes=[['vL','p0','vR','p1'],['vL*','p0*','vR*','p1*']]):
\* legs q0, q1 (of theta) and q0*, q1* (left over from dS)
ContractTheta(theta, dS) ==
  Tab(LAMBDA e :
        CSum(LAMBDA m : CMul(theta.a[IxT(m \div (4 * Chi), (m \div 4) % Chi, (m \div 2) % 2,
                                         m % 2, Hi(e \div 4), Lo(e \div 4))],
                             dS[1 + (4 * ((m \div 4) % Chi) + 2 * (m % 2) + Lo(e % 4)) * NComb
                                  + (4 * (m \div (4 * Chi)) + 2 * ((m \div 2) % 2)
                                     + Hi(e % 4))]),
             4 * Chi * Chi),
      16)

\* npc.inner(U, dS, axes=[['q0','q1','q0*','q1*'],['q0*','q1*','q0','q1']])
Inner(U, dS) == CSum(LAMBDA n : CMul(U[IxM(n \div 4, n % 4)], dS[IxM(n % 4, n \div 4)]), 16)

\* npc.tensordot(W, VH, axes=[1, 0]).conj(): conj() stars the labels, so the first leg
\* of the product becomes q0*.q1* and the second q0.q1
ConjProduct(P) == Tab(LAMBDA g : CConj(P[IxM(g % 4, g \div 4)]), 16)

\* lines 264 to 271, from the last dS on; -np.log(S2.real) is returned as the purity
\* S2.real, exact tells whether the polar factor is the exact one
RenyiIterReturn(U, dS, k) ==
  [purity |-> Inner(U, dS)[1], U |-> ConjProduct(PolarFactor(dS, k)),
   exact |-> Monomial(dS), dS |-> dS]

\* lines 257 to 263, from U_theta on
RenyiIterContract(theta, UT) == ContractTheta(theta, ContractLeft(UT, ContractRight(UT)))

disentangle_renyi_iter(theta, U, k) ==
  RenyiIterReturn(U, RenyiIterContract(theta, ApplyQ(U, theta).a), k)

(***************************************************************************)
(* Bond gates, legs p0, p1, p0*, p1*, given by their 4 x 4 matrix with     *)
(* rows p0.p1 and columns p0*.p1* (combined legs).                         *)
(***************************************************************************)
Z0 == CZero
\* identity
GateId == <<COne, Z0, Z0, Z0,  Z0, COne, Z0, Z0,  Z0, Z0, COne, Z0,  Z0, Z0, Z0, COne>>
\* the iSWAP gate, exp(i (pi/4) (XX + YY))
GateISwap == <<COne, Z0, Z0, Z0,  Z0, Z0, CI, Z0,  Z0, CI, Z0, Z0,  Z0, Z0, Z0, COne>>
\* controlled NOT, control on the left site
GateCNot == <<COne, Z0, Z0, Z0,  Z0, COne, Z0, Z0,  Z0, Z0, Z0, COne,  Z0, Z0, COne, Z0>>
\* an imaginary-time gate exp(-tau H), not unitary: diag(2, 1, 1, 2)
GateImag == << <<2, 0>>, Z0, Z0, Z0,  Z0, COne, Z0, Z0,  Z0, Z0, COne, Z0,  Z0, Z0, Z0, <<2, 0>> >>

UnitaryGates == {GateId, GateISwap, GateCNot}
Gates == UnitaryGates \cup {GateImag}

\* U U^dagger = 1 on (p0.p1)
IsUnitary(U) ==
  \A x, y \in QQ :
    CSum(LAMBDA k : CMul(U[IxM(x, k)], CConj(U[IxM(y, k)])), 4)
      = (IF x = y THEN COne ELSE CZero)

(***************************************************************************)
(* The state psi (a PurificationMPS): site tensors B in right-canonical    *)
(* form with legs vL, vR, p, q, and the weights S on every bond.           *)
(***************************************************************************)
\* a site tensor whose bond legs are in their first state, from its 2 x 2 matrix (p, q)
SiteFromMat(m) ==
  [a |-> Tab(LAMBDA k : IF k \div 4 = 0 THEN m[((k \div 2) % 2) + 1][(k % 2) + 1] ELSE CZero,
             NSite),
   d |-> 1]

\* infinite temperature: delta_{p,q}
BDelta == SiteFromMat(<< <<COne, Z0>>, <<Z0, COne>> >>)
\* physical and auxiliary spin both up: a pure product site
BUp == SiteFromMat(<< <<COne, Z0>>, <<Z0, Z0>> >>)
\* p and q anti-correlated
BFlip == SiteFromMat(<< <<Z0, COne>>, <<COne, Z0>> >>)

\* psi.get_theta(i0, n=2, formL): the two-site wavefunction of sites i0, i0+1, legs
\* vL, vR, p0, p1, q0, q1; formL = 1 scales vL with the weights left of i0, formL = 0
\* leaves them out.
get_theta(B, S, i0, formL) ==
  [a |-> Tab(LAMBDA l :
               CScale(IF formL = 1 THEN S[i0][TvL(l) + 1] ELSE 1,
                      CSum(LAMBDA m : CMul(B[i0].a[IxS(TvL(l), m, Tp0(l), Tq0(l))],
                                           B[i0 + 1].a[IxS(m, TvR(l), Tp1(l), Tq1(l))]),
                           Chi)),
             NTheta),
   d |-> B[i0].d * B[i0 + 1].d]

(***************************************************************************)
(* disentangle_renyi(theta): the bounded fixed-point loop.                 *)
(***************************************************************************)
\* a test that also holds against the initial Sold = np.inf
BreaksAtOnce(Pold, P, eps_n) == TRUE

\* abs(Sold - S) < eps with S = -log(P), Sold = -log(Pold): P / Pold and Pold / P are
\* both below exp(eps) = 1 + 1/eps_n.  Sold = np.inf is Pold = 0; -log(0) = inf and
\* abs(inf - inf) = nan, which is not below eps.
Converged(Pold, P, eps_n) ==
  /\ Pold > 0
  /\ P > 0
  /\ P - Pold <= (Pold - 1) \div eps_n
  /\ Pold - P <= (P - 1) \div eps_n

\* what a disentangle_* method hands back: the wavefunction and the unitary, or the
\* exception it raised; hist and broke describe the Renyi loop (empty otherwise)
Returned(theta, U, hist, broke) ==
  [theta |-> theta, U |-> U, error |-> None, value |-> None, hist |-> hist, broke |-> broke]
Raised(error, value) ==
  [theta |-> None, U |-> NoU, error |-> error, value |-> value, hist |-> <<>>,
   broke |-> FALSE]

\* the loop "for i in xrange(max_iter)": n calls of disentangle_renyi_iter were made,
\* hist holds what each returned
RECURSIVE RenyiLoop(_, _, _, _, _, _, _, _)
RECURSIVE RenyiLoopBody(_, _, _, _, _, _, _, _, _)

\* the body of the loop after the call of disentangle_renyi_iter, which returned r
RenyiLoopBody(theta, U, Pold, n, max_iter, eps_n, k, hist, r) ==
  IF Converged(Pold, r.purity, eps_n)
  THEN [U |-> r.U, hist |-> Append(hist, r), broke |-> TRUE]
  ELSE RenyiLoop(theta, r.U, r.purity, n + 1, max_iter, eps_n, k,
                 Append(hist, r))

RenyiLoop(theta, U, Pold, n, max_iter, eps_n, k, hist) ==
  IF n >= max_iter
  THEN [U |-> U, hist |-> hist, broke |-> FALSE]
  ELSE RenyiLoopBody(theta, U, Pold, n, max_iter, eps_n, k, hist,
                     disentangle_renyi_iter(theta, U, k))

\* lines 212 to 215: the verbose print reads the loop variable i and S, which are
\* unbound after a loop that made no iteration
RenyiReturn(theta, verbose, loop) ==
  IF verbose >= 10 /\ Len(loop.hist) = 0
  THEN Raised("UnboundLocalError", "i")
  ELSE Returned(ApplyQ(loop.U, theta), loop.U, loop.hist, loop.broke)

disentangle_renyi(theta, TEBD_params, verbose, k) ==
  RenyiReturn(theta, verbose,
              RenyiLoop(theta, EyeQ, 0, 0,
                        get_parameter(TEBD_params, "disent_max_iter", DefaultMaxIter),
                        get_parameter(TEBD_params, "disent_eps", DefaultEps), k, <<>>))

(***************************************************************************)
(* disentangle_backwards(theta, U_bond)                                    *)
(***************************************************************************)
\* disentangle_backwards without the test of type_evo
disentangle_backwards_any_evo(theta, U_bond, U_param) ==
  LET U == ConjRelabel(U_bond)
  IN Returned(ApplyQ(U, theta), U, <<>>, FALSE)

disentangle_backwards(theta, U_bond, U_param) ==
  IF U_param.type_evo = "imag"
  THEN Returned(theta, NoU, <<>>, FALSE)
  ELSE LET U == ConjRelabel(U_bond)
       IN Returned(ApplyQ(U, theta), U, <<>>, FALSE)

(***************************************************************************)
(* disentangle(theta, i, U_bond): dispatch on TEBD_params['disentangle']   *)
(***************************************************************************)
\* return theta, None, with None in the place of the unitary replaced by the identity
ReturnIdentity(theta) == Returned(theta, EyeQ, <<>>, FALSE)

\* return theta, None
ReturnUnchanged(theta) == Returned(theta, NoU, <<>>, FALSE)

\* disentangle without its final raise: an unrecognised value does nothing
disentangle_no_raise(theta, i, U_bond, TEBD_params, U_param, verbose, k) ==
  LET strategy == get_parameter(TEBD_params, "disentangle", None)
  IN IF strategy = None THEN ReturnUnchanged(theta)
     ELSE IF strategy = "backwards" THEN disentangle_backwards(theta, U_bond, U_param)
     ELSE IF strategy = "renyi" THEN disentangle_renyi(theta, TEBD_params, verbose, k)
     ELSE ReturnUnchanged(theta)

disentangle(theta, i, U_bond, TEBD_params, U_param, verbose, k) ==
  LET strategy == get_parameter(TEBD_params, "disentangle", None)
  IN IF strategy = None THEN ReturnUnchanged(theta)
     ELSE IF strategy = "backwards" THEN disentangle_backwards(theta, U_bond, U_param)
     ELSE IF strategy = "renyi" THEN disentangle_renyi(theta, TEBD_params, verbose, k)
     ELSE \* raise ValueError("Invalid 'disentangle': got " + repr(disentangle))
          Raised("ValueError", strategy)

(***************************************************************************)
(* svd_theta(theta, TEBD_params, inner_labels): the truncated              *)
(* factorization.  It hands back the right factor V (an isometry, legs vL  *)
(* and the combined vR.p1.q1), the kept weights S, the truncation error of *)
(* this step (not negative) and the norm the weights were divided by.  The *)
(* singular vectors of a wavefunction are not Gaussian integers in         *)
(* general: the model keeps, of the right legs p1, q1 on which theta has   *)
(* weight, the first or the last (with a phase), which is the exact right  *)
(* factor when theta has weight on one only, and draws the other results   *)
(* from two values; update_bond does not use the left factor U.            *)
(***************************************************************************)
\* the pairs (p1.q1) on which theta has weight
RightSupport(theta) ==
  {t \in QQ : \E l \in 0 .. NComb - 1, v \in VIdx : NonZero(At(theta.a, l, 4 * v + t))}

FirstOf(T) == IF T = {} THEN 0 ELSE CHOOSE t \in T : \A u \in T : t <= u
LastOf(T) == IF T = {} THEN 0 ELSE CHOOSE t \in T : \A u \in T : t >= u

\* row v of V is the basis vector (vR = v, (p1.q1) = t) times the phase c
VUnit(t, c) == Tab(LAMBDA e : IF e % NComb = 4 * (e \div NComb) + t THEN c ELSE CZero,
                   Chi * NComb)
Ones == Tab(LAMBDA v : 1, Chi)
Heavy == Tab(LAMBDA v : IF v = 0 THEN 2 ELSE 1, Chi)

svd_theta(theta, TEBD_params, r) ==
  IF r = 1
  THEN [V |-> VUnit(FirstOf(RightSupport(theta)), COne), S |-> Ones,
        trunc_err |-> 0, renormalize |-> 1]
  ELSE [V |-> VUnit(LastOf(RightSupport(theta)), CI), S |-> Heavy,
        trunc_err |-> 1, renormalize |-> 2]

\* the results that svd_theta is drawn from
SvdChoice == 1 .. 2

(***************************************************************************)
(* update_bond(i, U_bond).  A call of a collaborator may raise; fault is   *)
(* the stage whose call raises (0: none does), and a call that raises has  *)
(* no effect of its own.                                                   *)
(***************************************************************************)
StGetTheta == 1
StGate == 2
StDisentangle == 3
StSvd == 4
StRecompose == 5
StSetSR == 6
StSetB0 == 7
StSetB1 == 8
StAccumulate == 9
Stages == StGetTheta .. StAccumulate

\* V.split_legs(1).ireplace_labels(['p1', 'q1'], ['p', 'q'])
SplitV(V) == [a |-> V, d |-> 1]

\* npc.tensordot(C.combine_legs(('vR','p1','q1'), pipes=theta.legs[1]), V.conj(),
\*               axes=['(vR.p1.q1)', '(vR*.p1*.q1* )'])  and  B_L /= renormalize
RecomposeLeft(C, V, renormalize) ==
  [a |-> Tab(LAMBDA e :
               LET vL == e \div (4 * Chi)
                   vR == (e \div 4) % Chi
                   p == (e \div 2) % 2
                   q == e % 2
               IN CSum(LAMBDA r : CMul(At(C.a, 4 * vL + 2 * p + q, r), CConj(V[IxV(vR, r)])),
                       NComb),
             NSite),
   d |-> C.d * renormalize]

\* C is left as it is, whatever disentangle returned
SkipDisent(U_disent, C) == C

\* if U_disent is not None: C = npc.tensordot(U_disent, C, axes=[['q0*','q1*'],['q0','q1']])
ApplyDisent(U_disent, C) == IF U_disent # NoU THEN ApplyQ(U_disent, C) ELSE C

\* the accumulator is overwritten by the error of this step
Overwrite(acc, trunc_err) == trunc_err

\* self._trunc_err_bonds[i] + trunc_err
Accumulate(acc, trunc_err) == acc + trunc_err

\* the first stage that raises, 10 when none does: the injected fault, or the
\* exception of disentangle when it is reached
StopStage(fault, dis) ==
  IF fault # 0 /\ (fault <= StDisentangle \/ dis.error = None) THEN fault
  ELSE IF dis.error # None THEN StDisentangle
  ELSE 10

\* the exception that leaves update_bond, None when it returns
ErrorOf(fault, dis, stop) ==
  IF stop = 10 THEN None
  ELSE IF stop = StDisentangle /\ fault # StDisentangle THEN dis.error
  ELSE "Error"

\* lines 118 to 122: the writes that are made before the stage stop, and the values of
\* the call's local variables as far as the call got
WriteBack(B, S, trunc_err_bonds, i, stop, error, thetaG, dis, svd, C, B_L, B_R) ==
  [S |-> IF stop > StSetSR THEN [S EXCEPT ![i] = svd.S] ELSE S,
   B |-> IF stop > StSetB1 THEN [B EXCEPT ![i - 1] = B_L, ![i] = B_R]
         ELSE IF stop > StSetB0 THEN [B EXCEPT ![i - 1] = B_L]
         ELSE B,
   trunc_err_bonds |->
     IF stop > StAccumulate
     THEN [trunc_err_bonds EXCEPT ![i] = Accumulate(trunc_err_bonds[i], svd.trunc_err)]
     ELSE trunc_err_bonds,
   error |-> error,
   value |-> IF error = "ValueError" \/ error = "UnboundLocalError" THEN dis.value ELSE None,
   stop |-> stop,
   ret |-> IF stop = 10 THEN svd.trunc_err ELSE -1,
   thetaG |-> IF stop > StGate THEN thetaG ELSE None,
   theta |-> IF stop > StDisentangle THEN dis.theta ELSE None,
   U_disent |-> IF stop > StDisentangle THEN dis.U ELSE NoU,
   svd |-> IF stop > StSvd THEN svd ELSE None,
   C |-> IF stop > StRecompose THEN C ELSE None,
   B_L |-> IF stop > StRecompose THEN B_L ELSE None,
   B_R |-> IF stop > StRecompose THEN B_R ELSE None]

\* lines 97 to 117, with C after the disentangler
Recompose(B, S, trunc_err_bonds, i, stop, error, thetaG, dis, svd, C) ==
  WriteBack(B, S, trunc_err_bonds, i, stop, error, thetaG, dis, svd, C,
            RecomposeLeft(C, svd.V, svd.renormalize), SplitV(svd.V))

\* lines 90 to 111, with what disentangle handed back; combine_legs only regroups
\* the legs of theta
AfterDisentangle(B, S, trunc_err_bonds, TEBD_params, i, r, fault, stop, thetaG, CG, dis) ==
  Recompose(B, S, trunc_err_bonds, i, stop, ErrorOf(fault, dis, stop), thetaG, dis,
            svd_theta(dis.theta, TEBD_params, r), ApplyDisent(dis.U, CG))

\* line 89, with theta and C after the gate
AfterGate(B, S, trunc_err_bonds, TEBD_params, i, r, fault, thetaG, CG, dis) ==
  AfterDisentangle(B, S, trunc_err_bonds, TEBD_params, i, r, fault, StopStage(fault, dis),
                   thetaG, CG, dis)

\* lines 87 to 89 and 106 to 109
Gated(B, S, trunc_err_bonds, TEBD_params, U_param, verbose, i, U_bond, r, k, fault, thetaG, CG) ==
  AfterGate(B, S, trunc_err_bonds, TEBD_params, i, r, fault, thetaG, CG,
            disentangle(thetaG, i, U_bond, TEBD_params, U_param, verbose, k))

update_bond(B, S, trunc_err_bonds, TEBD_params, U_param, verbose, i, U_bond, r, k, fault) ==
  Gated(B, S, trunc_err_bonds, TEBD_params, U_param, verbose, i, U_bond, r, k, fault,
        ApplyP(U_bond, get_theta(B, S, i - 1, 1)),
        ApplyP(U_bond, get_theta(B, S, i - 1, 0)))

(***************************************************************************)
(* run_imaginary(beta).  Times are counted in tenths, so that beta / dt is *)
(* a ratio of integers.                                                    *)
(***************************************************************************)
\* int(x) for x = num / den with den > 0: the fraction is cut off, towards zero
IntTrunc(num, den) == IF num >= 0 THEN num \div den ELSE -((-num) \div den)

\* int(beta / delta_t) without the + 0.5
N_steps_floor(beta, delta_t) == IntTrunc(beta, delta_t)

\* int(beta / delta_t + 0.5)
N_steps(beta, delta_t) == IntTrunc(2 * beta + delta_t, 2 * delta_t)

\* self.calc_U(TrotterOrder, delta_t, type_evo='imag'): builds the bond gates and
\* records what they were built for in self._U_param
calc_U(order, delta_t, type_evo) == [order |-> order, delta_t |-> delta_t, type_evo |-> type_evo]

\* self._U[...][i], the gate that calc_U built for bond i and that the sweeps hand to
\* update_bond: exp(-tau h) for imaginary time, a unitary exp(-i dt h) for real time
BondGate(U_param, i) ==
  IF U_param.type_evo = "imag" THEN GateImag
  ELSE IF i = 1 THEN GateISwap ELSE GateCNot

(***************************************************************************)
(* The engine's state.                                                     *)
(***************************************************************************)
VARIABLES
  B,                \* psi: the site tensors
  S,                \* psi: the weights on the bonds, S[b] left of site b
  trunc_err_bonds,  \* self._trunc_err_bonds
  TEBD_params,      \* self.TEBD_params
  U_param,          \* self._U_param, set by calc_U
  verbose,          \* self.verbose
  calls,            \* number of update_bond calls made
  pre,              \* psi and the accumulators when the last update_bond call began
  last,             \* the last update_bond call: its arguments and what it did (res)
  dis,              \* the last direct call of disentangle: arguments and outcome
  run               \* the run_imaginary call in progress

vars == <<B, S, trunc_err_bonds, TEBD_params, U_param, verbose, calls, pre, last, dis, run>>

Bonds == 0 .. 3

\* TEBD_params as the caller may have set them; chi_max is handed on to svd_theta
BaseParams == [chi_max |-> Chi]
StrategyParams ==
  { BaseParams,
    [chi_max |-> Chi, disentangle |-> None],
    [chi_max |-> Chi, disentangle |-> "backwards"],
    [chi_max |-> Chi, disentangle |-> "renyi"],
    [chi_max |-> Chi, disentangle |-> "unknown"] }

\* the break criteria of the Renyi loop, set or left to their defaults
RenyiParams ==
  {[chi_max |-> Chi, disentangle |-> "renyi", disent_max_iter |-> n] : n \in 0 .. 2}
    \cup {[chi_max |-> Chi, disentangle |-> "renyi", disent_eps |-> 1]}

\* the time step and the order, set or left to their defaults
RunParams ==
  {BaseParams, [chi_max |-> Chi, order |-> 4]}
    \cup {[chi_max |-> Chi, dt |-> d] : d \in 2 .. 3}
    \cup {[chi_max |-> Chi, dt |-> d, order |-> 4] : d \in 2 .. 3}

NoCall == [i |-> 0, res |-> [error |-> None, stop |-> 0]]
NoDis == [called |-> FALSE]
NoRun == [pc |-> "idle"]

\* psi at infinite temperature, nothing accumulated, nothing called
InitPsi ==
  /\ B = [s \in Sites |-> BDelta]
  /\ S = [b \in Bonds |-> Ones]
  /\ trunc_err_bonds = [b \in Bonds |-> 0]
  /\ calls = 0
  /\ pre = [B |-> B, S |-> S, trunc_err_bonds |-> trunc_err_bonds]
  /\ last = NoCall
  /\ dis = NoDis
  /\ run = NoRun

Init ==
  /\ InitPsi
  /\ TEBD_params \in StrategyParams
  /\ \E t \in {"real", "imag"} : U_param = calc_U(DefaultOrder, DefaultDt, t)
  /\ verbose = 0

\* one call update_bond(i, U_bond) from the sweep scheduler.  An exception leaves the
\* engine to its caller: no further call is made.
UpdateBond(i, r, k, fault) ==
  /\ calls < MaxCalls
  /\ last.res.error = None
  /\ last' = [i |-> i, U_bond |-> BondGate(U_param, i), fault |-> fault,
              res |-> update_bond(B, S, trunc_err_bonds, TEBD_params, U_param, verbose,
                                  i, BondGate(U_param, i), r, k, fault)]
  /\ B' = last'.res.B
  /\ S' = last'.res.S
  /\ trunc_err_bonds' = last'.res.trunc_err_bonds
  /\ pre' = [B |-> B, S |-> S, trunc_err_bonds |-> trunc_err_bonds]
  /\ calls' = calls + 1
  /\ UNCHANGED <<TEBD_params, U_param, verbose, dis, run>>

\* the choices that the call can read: the factorization's result when it is reached,
\* the completion of a singular polar factor when the Renyi loop is reached
SvdChoices(fault) == IF fault = 0 \/ fault > StSvd THEN SvdChoice ELSE {1}
PolarChoices(params, fault) ==
  IF get_parameter(params, "disentangle", None) = "renyi"
       /\ (fault = 0 \/ fault > StDisentangle)
  THEN {0, 1} ELSE {0}

Next ==
  \E i \in BondIdx, fault \in {0} \cup Stages :
    \E r \in SvdChoices(fault), k \in PolarChoices(TEBD_params, fault) :
      UpdateBond(i, r, k, fault)

Spec == Init /\ [][Next]_vars

(***************************************************************************)
(* Direct calls of disentangle(theta, i, U_bond), as update_bond makes     *)
(* them: theta is the wavefunction of two sites after the gate.            *)
(***************************************************************************)
SiteTensors == {BDelta, BUp, BFlip}

\* the two-site wavefunction of the sites bl, br with trivial weights
ThetaOf(bl, br) == get_theta([s \in 0 .. 1 |-> IF s = 0 THEN bl ELSE br], S, 0, 1)

InitDis ==
  /\ InitPsi
  /\ TEBD_params \in StrategyParams \cup RenyiParams
  /\ \E t \in {"real", "imag"} : U_param = calc_U(DefaultOrder, DefaultDt, t)
  /\ verbose \in {0, 10}

CallDisentangle(bl, br, i, U_bond, k) ==
  /\ ~dis.called
  /\ LET theta0 == ThetaOf(bl, br)
         theta == ApplyP(U_bond, theta0)
     IN dis' = [called |-> TRUE, theta0 |-> theta0, theta |-> theta, i |-> i,
                U_bond |-> U_bond, k |-> k,
                out |-> disentangle(theta, i, U_bond, TEBD_params, U_param, verbose, k)]
  /\ UNCHANGED <<B, S, trunc_err_bonds, TEBD_params, U_param, verbose, calls, pre, last, run>>

NextDis ==
  \E bl \in SiteTensors, br \in SiteTensors, i \in BondIdx, U_bond \in Gates :
    \E k \in PolarChoices(TEBD_params, 0) :
      CallDisentangle(bl, br, i, U_bond, k)

SpecDis == InitDis /\ [][NextDis]_vars

(***************************************************************************)
(* run_imaginary(beta): calc_U, then update(N_steps), whose sweeps call    *)
(* update_bond on every bond with the gate calc_U built.                   *)
(***************************************************************************)
InitRun ==
  /\ InitPsi
  /\ TEBD_params \in RunParams
  /\ U_param = calc_U(DefaultOrder, DefaultDt, "real")
  /\ verbose = 0

\* run_imaginary up to the call of update: the parameters are read and calc_U is called
RunBegin(beta) ==
  /\ run.pc = "idle"
  /\ LET delta_t == get_parameter(TEBD_params, "dt", DefaultDt)
         TrotterOrder == get_parameter(TEBD_params, "order", DefaultOrder)
     IN /\ U_param' = calc_U(TrotterOrder, delta_t, "imag")
        /\ run' = [pc |-> "update", beta |-> beta, delta_t |-> delta_t,
                   TrotterOrder |-> TrotterOrder, calc_U |-> 1,
                   calls_before_calc_U |-> calls,
                   N_steps |-> N_steps(beta, delta_t), sweeps |-> 0]
  /\ UNCHANGED <<B, S, trunc_err_bonds, TEBD_params, verbose, calls, pre, last, dis>>

\* one sweep of update(N_steps): update_bond on bond 1, then on bond 2
Sweep(r, k) ==
  /\ run.pc = "update"
  /\ run.sweeps < run.N_steps
  /\ LET first == update_bond(B, S, trunc_err_bonds, TEBD_params, U_param, verbose,
                              1, BondGate(U_param, 1), r, k, 0)
     IN /\ pre' = [B |-> first.B, S |-> first.S, trunc_err_bonds |-> first.trunc_err_bonds]
        /\ last' = [i |-> 2, U_bond |-> BondGate(U_param, 2), fault |-> 0,
                    res |-> update_bond(pre'.B, pre'.S, pre'.trunc_err_bonds, TEBD_params,
                                        U_param, verbose, 2, BondGate(U_param, 2), r, k, 0)]
  /\ B' = last'.res.B
  /\ S' = last'.res.S
  /\ trunc_err_bonds' = last'.res.trunc_err_bonds
  /\ calls' = calls + 2
  /\ run' = [run EXCEPT !.sweeps = run.sweeps + 1]
  /\ UNCHANGED <<TEBD_params, U_param, verbose, dis>>

\* update has made its N_steps sweeps and run_imaginary returns (verbose < 1: no print)
RunDone ==
  /\ run.pc = "update"
  /\ run.sweeps >= run.N_steps
  /\ run' = [run EXCEPT !.pc = "done"]
  /\ UNCHANGED <<B, S, trunc_err_bonds, TEBD_params, U_param, verbose, calls, pre, last, dis>>

NextRun ==
  \/ \E beta \in -2 .. MaxBeta : RunBegin(beta)
  \/ \E r \in SvdChoice : Sweep(r, 0)
  \/ RunDone

SpecRun == InitRun /\ [][NextRun]_vars

(***************************************************************************)
(* Properties.  The state functions below read the engine's state and the  *)
(* record of the last call.                                                *)
(***************************************************************************)
\* the configured strategy, None when the option is absent
Strategy == IF "disentangle" \in DOMAIN TEBD_params THEN TEBD_params.disentangle ELSE None

\* the sites and the bond that the last update_bond call works on
LeftSite == last.i - 1
RightSite == last.i

\* a two-site wavefunction that is a product of a left and a right factor: its matrix
\* with rows (vL.p0.q0) and columns (vR.p1.q1) has rank one
IsProduct(theta) ==
  /\ \E l \in 0 .. NComb - 1, r \in 0 .. NComb - 1 : NonZero(At(theta.a, l, r))
  /\ \A l1 \in 0 .. NComb - 1, l2 \in 0 .. NComb - 1 :
       \A r1 \in 0 .. NComb - 1, r2 \in 0 .. NComb - 1 :
         CMul(At(theta.a, l1, r1), At(theta.a, l2, r2))
           = CMul(At(theta.a, l1, r2), At(theta.a, l2, r1))

\* theta = delta_{p0,q0} * delta_{p1,q1} on every pair of bond indices
IsDelta(theta) ==
  \A l \in 0 .. NTheta - 1 :
    theta.a[l + 1] = CScale(theta.d, IF Tp0(l) = Tq0(l) /\ Tp1(l) = Tq1(l) THEN COne ELSE CZero)

\* two purities whose entropies -log(P) differ by less than eps, exp(eps) = 1 + 1/eps_n
EntropiesWithin(P, Q, eps_n) ==
  /\ P > 0
  /\ Q > 0
  /\ eps_n * (IF P > Q THEN P - Q ELSE Q - P) < (IF P > Q THEN Q ELSE P)

MaxIter == IF "disent_max_iter" \in DOMAIN TEBD_params THEN TEBD_params.disent_max_iter
           ELSE DefaultMaxIter
EpsN == IF "disent_eps" \in DOMAIN TEBD_params THEN TEBD_params.disent_eps ELSE DefaultEps

\* the last direct call of disentangle ran the Renyi strategy
RenyiCalled == dis.called /\ Strategy = "renyi"

(***************************************************************************)
(* C1: update_bond is atomic: after a call, failed at any point or not,    *)
(* the site tensors at i-1 and i, the weight of the bond between them and  *)
(* the accumulator of bond i are all as before the call or all replaced.   *)
(* The code makes its four writes one after the other and undoes none.     *)
(***************************************************************************)
C1_AllOrNothing ==
  calls > 0 =>
    \/ /\ B[LeftSite] = pre.B[LeftSite]
       /\ B[RightSite] = pre.B[RightSite]
       /\ S[last.i] = pre.S[last.i]
       /\ trunc_err_bonds[last.i] = pre.trunc_err_bonds[last.i]
    \/ /\ last.res.error = None
       /\ B[LeftSite] = last.res.B_L
       /\ B[RightSite] = last.res.B_R
       /\ S[last.i] = last.res.svd.S
       /\ trunc_err_bonds[last.i] = pre.trunc_err_bonds[last.i] + last.res.svd.trunc_err

(***************************************************************************)
(* C2: the accumulated truncation error of every bond never decreases; a   *)
(* successful update_bond(i, .) sets it to its prior value plus the        *)
(* increment of this call, which is not negative and is what the call      *)
(* returns; the accumulators of the other bonds are left unchanged.        *)
(***************************************************************************)
C2_Accumulates ==
  [][\A b \in Bonds :
       /\ trunc_err_bonds'[b] >= trunc_err_bonds[b]
       /\ (last'.res.error = None /\ last'.i = b)
            => /\ last'.res.ret >= 0
               /\ trunc_err_bonds'[b] = trunc_err_bonds[b] + last'.res.ret
       /\ (last'.res.error # None \/ last'.i # b)
            => trunc_err_bonds'[b] = trunc_err_bonds[b]]_vars

\* C2, witness: a second successful call on a bond whose accumulator was not zero: the
\* total differs from the value the call returned
C2_Witness ==
  /\ calls = 2
  /\ last.res.error = None
  /\ last.res.ret = 1
  /\ pre.trunc_err_bonds[last.i] = 1
  /\ trunc_err_bonds[last.i] = 2

(***************************************************************************)
(* C3: with a strategy other than None, 'backwards' and 'renyi', a call of *)
(* update_bond that reaches disentangle raises ValueError, the error names *)
(* the configured value, and nothing of the state was written.             *)
(***************************************************************************)
C3_InvalidStrategyRaises ==
  (calls > 0 /\ Strategy \notin {None, "backwards", "renyi"}
     /\ last.fault \notin StGetTheta .. StDisentangle)
    => /\ last.res.error = "ValueError"
       /\ last.res.value = TEBD_params.disentangle
       /\ B = pre.B
       /\ S = pre.S
       /\ trunc_err_bonds = pre.trunc_err_bonds

\* C3, witness: a call with the strategy "unknown" and no failing collaborator has raised
C3_Witness ==
  /\ calls = 1
  /\ Strategy = "unknown"
  /\ last.fault = 0
  /\ last.res.error = "ValueError"
  /\ last.res.value = "unknown"

(***************************************************************************)
(* C4: with the option absent or None, disentangle returns the wave        *)
(* function it was given and no unitary, for every theta, bond and gate.   *)
(***************************************************************************)
C4_NoneIsIdentity ==
  (dis.called /\ Strategy = None)
    => /\ dis.out.error = None
       /\ dis.out.theta = dis.theta
       /\ dis.out.U = NoU

\* C4, witness: a call with the option absent, after an entangling gate
C4_Witness ==
  /\ dis.called
  /\ "disentangle" \notin DOMAIN TEBD_params
  /\ dis.U_bond = GateISwap
  /\ dis.i = 2
  /\ dis.out.theta = dis.theta

(***************************************************************************)
(* C5: with 'backwards' and gates built for imaginary time, disentangle    *)
(* raises nothing and hands back the wavefunction after the gate and no    *)
(* unitary, so that update_bond applies the gate and nothing else to theta *)
(* and to C.                                                               *)
(***************************************************************************)
C5_BackwardsImagNoOp ==
  (calls > 0 /\ Strategy = "backwards" /\ U_param.type_evo = "imag")
    => /\ last.res.stop # StDisentangle \/ last.fault = StDisentangle
       /\ last.res.stop > StDisentangle
            => /\ last.res.U_disent = NoU
               /\ last.res.theta
                    = ApplyP(last.U_bond, get_theta(pre.B, pre.S, LeftSite, 1))
       /\ last.res.stop > StRecompose
            => last.res.C = ApplyP(last.U_bond, get_theta(pre.B, pre.S, LeftSite, 0))

\* C5, witness: a successful call with the imaginary-time gate under 'backwards'
C5_Witness ==
  /\ calls > 0
  /\ Strategy = "backwards"
  /\ U_param.type_evo = "imag"
  /\ last.U_bond = GateImag
  /\ last.res.stop = 10

(***************************************************************************)
(* C6: in real time, a unitary gate on p0, p1 of theta = delta delta       *)
(* followed by the Backwards strategy gives back the wavefunction before   *)
(* the gate, and the unitary returned is the conjugated gate on q0, q1.    *)
(***************************************************************************)
C6_BackwardsRoundTrip ==
  (dis.called /\ Strategy = "backwards" /\ U_param.type_evo = "real"
     /\ IsDelta(dis.theta0) /\ IsUnitary(dis.U_bond))
    => /\ dis.out.error = None
       /\ TEq(dis.out.theta, dis.theta0)
       /\ \A a \in Bit, b \in Bit, c \in Bit, d \in Bit :
            dis.out.U[IxG(a, b, c, d)] = CConj(dis.U_bond[IxG(a, b, c, d)])

\* C6, witness: the round trip of the iSWAP gate, which changes theta and is not real
C6_Witness ==
  /\ dis.called
  /\ Strategy = "backwards"
  /\ U_param.type_evo = "real"
  /\ IsDelta(dis.theta0)
  /\ dis.U_bond = GateISwap
  /\ ~TEq(dis.theta, dis.theta0)
  /\ TEq(dis.out.theta, dis.theta0)

(***************************************************************************)
(* C7: disentangle_renyi returns, without an error, after at most          *)
(* disent_max_iter calls of disentangle_renyi_iter, the first of them with *)
(* U = identity; it leaves the loop early exactly at the first iteration   *)
(* whose entropy is within disent_eps of the one before; it returns the    *)
(* last U and theta transformed by it.                                     *)
(***************************************************************************)
C7_RenyiTerminates ==
  RenyiCalled =>
    /\ dis.out.error = None
    /\ Len(dis.out.hist) <= MaxIter
    /\ Len(dis.out.hist) >= 1
         => dis.out.hist[1].purity = Inner(EyeQ, RenyiIterContract(dis.theta, dis.theta.a))[1]
    /\ \A n \in 1 .. Len(dis.out.hist) :
         (n >= 2 /\ EntropiesWithin(dis.out.hist[n - 1].purity, dis.out.hist[n].purity, EpsN))
           <=> (n = Len(dis.out.hist) /\ dis.out.broke)
    /\ ~dis.out.broke => Len(dis.out.hist) = MaxIter
    /\ dis.out.U = (IF Len(dis.out.hist) = 0 THEN EyeQ
                    ELSE dis.out.hist[Len(dis.out.hist)].U)
    /\ dis.out.theta = ApplyQ(dis.out.U, dis.theta)

(***************************************************************************)
(* C8, as stated: for a product wavefunction the Renyi loop is left after  *)
(* a single call of disentangle_renyi_iter, with U the identity up to a    *)
(* phase and the entropy unchanged.                                        *)
(***************************************************************************)
C8_OneIteration ==
  (RenyiCalled /\ dis.out.error = None /\ IsProduct(dis.theta) /\ MaxIter >= 1)
    => /\ Len(dis.out.hist) = 1
       /\ \E c \in {COne, CI, CConj(CI), CScale(-1, COne)} :
            dis.out.U = Tab(LAMBDA e : CMul(c, EyeQ[e + 1]), 16)
       /\ TEq(dis.out.theta, dis.theta)

(***************************************************************************)
(* C8, amended: for a product wavefunction and disent_max_iter >= 2 the    *)
(* loop is left at the second call of disentangle_renyi_iter, the first    *)
(* that has an entropy to compare with; both calls give the same entropy,  *)
(* the wavefunction returned is the one given, and U is the identity when  *)
(* the matrix dS of the first call is not singular.                        *)
(***************************************************************************)
C8_TwoIterations ==
  (RenyiCalled /\ dis.out.error = None /\ IsProduct(dis.theta) /\ MaxIter >= 2)
    => /\ Len(dis.out.hist) = 2
       /\ dis.out.broke
       /\ dis.out.hist[1].purity = dis.out.hist[2].purity
       /\ TEq(dis.out.theta, dis.theta)
       /\ ZeroRows(dis.out.hist[1].dS) = {} => dis.out.U = EyeQ

\* C8, witness: the loop was left at its second call on a product wavefunction whose
\* matrix dS is not singular, with the default cap
C8_Witness ==
  /\ RenyiCalled
  /\ dis.out.error = None
  /\ IsProduct(dis.theta)
  /\ "disent_max_iter" \notin DOMAIN TEBD_params
  /\ Len(dis.out.hist) = 2
  /\ ZeroRows(dis.out.hist[1].dS) = {}
  /\ dis.out.U = EyeQ

C10_SameTransformations ==
  (calls > 0 /\ last.res.stop > StRecompose)
    => /\ \A l \in 0 .. NTheta - 1 :
            CScale(last.res.C.d, last.res.theta.a[l + 1])
              = CScale(last.res.theta.d * pre.S[LeftSite][TvL(l) + 1], last.res.C.a[l + 1])
       /\ last.res.C
            = (IF last.res.U_disent = NoU
               THEN ApplyP(last.U_bond, get_theta(pre.B, pre.S, LeftSite, 0))
               ELSE ApplyQ(last.res.U_disent,
                           ApplyP(last.U_bond, get_theta(pre.B, pre.S, LeftSite, 0))))
       /\ \A vL \in VIdx, v \in VIdx, p \in Bit, q \in Bit :
            CScale(last.res.svd.renormalize * last.res.C.d, last.res.B_L.a[IxS(vL, v, p, q)])
              = CScale(last.res.B_L.d,
                       CSum(LAMBDA r : CMul(last.res.C.a[IxT(vL, LegV(r), p, LegP(r), q, LegQ(r))],
                                            CConj(last.res.svd.V[IxV(v, r)])), NComb))
       /\ last.res.B_L.d = pre.B[LeftSite].d * pre.B[RightSite].d * last.res.svd.renormalize
       /\ last.res.stop > StSetB0 => B[LeftSite] = last.res.B_L

\* C10, witness: a successful call with a unitary from disentangle, old weights on the
\* left that are not 1 and a renormalization that is not 1
C10_Witness ==
  /\ calls = 2
  /\ last.res.stop = 10
  /\ last.res.U_disent # NoU
  /\ pre.S[LeftSite] = Heavy
  /\ last.res.svd.renormalize = 2

====
